---- MODULE Spec2Model ----
(***************************************************************************)
(* Verification model of the QR-Code styling / drawing engine:             *)
(*   src/src/Style.ts   - size-value resolver, gradient model, Style       *)
(*   src/src/Drawer.ts  - canvas drawer: markup generation, rasterisation, *)
(*                        icon acquisition                                 *)
(*                                                                         *)
(* JavaScript numbers are modelled as exact rationals [n, d] in lowest     *)
(* terms, extended with NaN ([0,0]) and the two infinities ([1,0],[-1,0]). *)
(* Floating-point rounding is not modelled.                                *)
(* JavaScript strings that are parsed by the program are sequences of      *)
(* one-character strings.                                                  *)
(***************************************************************************)
EXTENDS Integers, Sequences, FiniteSets, TLC

VARIABLES
    sizeCall,     \* one call of the size-value resolvers: arguments and results
    colorCall,    \* one call chain parseColor / generateGradient
    style,        \* the fields of one Style instance
    styleCall,    \* the last operation invoked on the Style instance
    svgCall,      \* one markup generation: arguments and emitted markup
    drawer,       \* the fields of one Drawer instance (with its qr)
    canvas,       \* the draw operations issued on the Drawer's canvas context
    urls,         \* object URLs: created and not yet revoked / all ever created
    calls,        \* the async calls in flight on the Drawer
    heap,         \* the objects and arrays a caller shares with a Style, by address
    other,        \* a second Drawer instance and a second Style instance
    runs          \* the markup generations run so far: inputs and emitted markup

vars == <<sizeCall, colorCall, style, styleCall, svgCall, drawer, canvas, urls, calls,
          heap, other, runs>>

-----------------------------------------------------------------------------
(* Bounds of the model                                                     *)

MaxStrLen == 4          \* longest SizeValue string
MaxNumber == 8          \* bare numbers range over -MaxNumber/2 .. MaxNumber/2 in halves

-----------------------------------------------------------------------------
(* JavaScript values                                                       *)

\* the value `undefined` (an omitted argument, an absent key, a pending result)
Undefined == [undefined |-> TRUE]

Abs(i) == IF i < 0 THEN -i ELSE i
Sign(i) == IF i < 0 THEN -1 ELSE IF i > 0 THEN 1 ELSE 0

RECURSIVE GCD(_, _)
GCD(a, b) == IF b = 0 THEN a ELSE GCD(b, a % b)

\* the number n/d, normalised; d = 0 gives NaN (n = 0) or +-Infinity
Rat(n, d) ==
    IF d = 0 THEN [n |-> Sign(n), d |-> 0]
    ELSE LET g == GCD(Abs(n), Abs(d))
         IN  [n |-> (Sign(d) * n) \div g, d |-> Abs(d) \div g]

Num(i) == [n |-> i, d |-> 1]
NaN == [n |-> 0, d |-> 0]

isNaN(x) == x.n = 0 /\ x.d = 0

Mul(a, b) == Rat(a.n * b.n, a.d * b.d)

Div(a, b) ==
    IF isNaN(a) \/ isNaN(b) THEN NaN
    ELSE IF a.d = 0 /\ b.d = 0 THEN NaN
    ELSE Rat(a.n * b.d * (IF b.n < 0 THEN -1 ELSE 1), a.d * Abs(b.n))

Add(a, b) ==
    IF isNaN(a) \/ isNaN(b) THEN NaN
    ELSE IF a.d = 0 /\ b.d = 0 THEN (IF a = b THEN a ELSE NaN)
    ELSE Rat(a.n * b.d + b.n * a.d, a.d * b.d)

Sub(a, b) == Add(a, Mul(Num(-1), b))

\* a > b ; every comparison with NaN is false
Gt(a, b) ==
    IF isNaN(a) \/ isNaN(b) THEN FALSE
    ELSE IF a.d = 0 /\ b.d = 0 THEN a.n > b.n
    ELSE a.n * b.d > b.n * a.d

Ge(a, b) == ~isNaN(a) /\ ~isNaN(b) /\ ~Gt(b, a)

\* ToBoolean of a number or undefined: 0, NaN and undefined are falsy
Truthy(x) == x # Undefined /\ ("n" \in DOMAIN x => x.n # 0)

\* `x != null`
NotNull(x) == x # Undefined

\* Math.floor of a finite number
Floor(x) == Num(x.n \div x.d)

-----------------------------------------------------------------------------
(* Strings and parseInt                                                    *)

Chars == {"-", "0", "1", "5", ".", "%", "p", "x"}

RECURSIVE StringsOfLen(_)
StringsOfLen(k) ==
    IF k = 0 THEN {<<>>}
    ELSE {Append(s, c) : s \in StringsOfLen(k - 1), c \in Chars}

Strings == UNION {StringsOfLen(k) : k \in 0..MaxStrLen}

endsWith(s, suffix) ==
    /\ Len(s) >= Len(suffix)
    /\ SubSeq(s, Len(s) - Len(suffix) + 1, Len(s)) = suffix

\* s.slice(0, -k)
sliceEnd(s, k) == SubSeq(s, 1, Len(s) - k)

\* s.slice(k)
sliceFrom(s, k) == SubSeq(s, k + 1, Len(s))

WhiteSpace == {" "}

\* the value of a digit character in the given radix, -1 if it is not one
DigitValue(c, radix) ==
    LET v == CASE c = "0" -> 0 [] c = "1" -> 1 [] c = "2" -> 2 [] c = "3" -> 3
               [] c = "4" -> 4 [] c = "5" -> 5 [] c = "6" -> 6 [] c = "7" -> 7
               [] c = "8" -> 8 [] c = "9" -> 9
               [] c \in {"a", "A"} -> 10 [] c \in {"b", "B"} -> 11
               [] c \in {"c", "C"} -> 12 [] c \in {"d", "D"} -> 13
               [] c \in {"e", "E"} -> 14 [] c \in {"f", "F"} -> 15
               [] OTHER -> -1
    IN  IF v < radix THEN v ELSE -1

RECURSIVE TrimStart(_)
TrimStart(s) ==
    IF Len(s) > 0 /\ s[1] \in WhiteSpace THEN TrimStart(Tail(s)) ELSE s

\* the longest prefix of s made of digits of the radix
RECURSIVE DigitPrefix(_, _)
DigitPrefix(s, radix) ==
    IF Len(s) > 0 /\ DigitValue(s[1], radix) >= 0
    THEN <<s[1]>> \o DigitPrefix(Tail(s), radix)
    ELSE <<>>

\* the integer written by a sequence of digits
RECURSIVE DigitsValue(_, _)
DigitsValue(ds, radix) ==
    IF Len(ds) = 0 THEN 0
    ELSE DigitsValue(SubSeq(ds, 1, Len(ds) - 1), radix) * radix
         + DigitValue(ds[Len(ds)], radix)

\* parseInt(s) with no radix argument (ECMAScript parseInt): leading white
\* space is skipped, then an optional sign, then an optional 0x prefix, then
\* the longest run of digits; NaN if that run is empty
parseInt(s) ==
    LET t      == TrimStart(s)
        signed == Len(t) > 0 /\ t[1] \in {"-", "+"}
        sign   == IF Len(t) > 0 /\ t[1] = "-" THEN -1 ELSE 1
        u      == IF signed THEN Tail(t) ELSE t
        hex    == Len(u) >= 2 /\ u[1] = "0" /\ u[2] \in {"x", "X"}
        radix  == IF hex THEN 16 ELSE 10
        body   == IF hex THEN sliceFrom(u, 2) ELSE u
        digits == DigitPrefix(body, radix)
    IN  IF Len(digits) = 0 THEN NaN
        ELSE Num(sign * DigitsValue(digits, radix))

-----------------------------------------------------------------------------
(* Size-value resolver                                                     *)

\* a string value (a SizeValue string, a colour string); numbers are the
\* rationals above, objects are records of their properties
String(s) == [str |-> s]
typeof(v) ==
    IF v = Undefined THEN "undefined"
    ELSE IF "str" \in DOMAIN v THEN "string"
    ELSE IF DOMAIN v = {"n", "d"} THEN "number"
    ELSE "object"

\* Style.parseSizeValue(value, reference, maximum?)
parseSizeValue(value, reference, maximum) ==
    LET parsed ==
            IF typeof(value) = "string"
            THEN IF endsWith(value.str, <<"%">>)
                 THEN Mul(Div(parseInt(sliceEnd(value.str, 1)), Num(100)), reference)
                 ELSE IF endsWith(value.str, <<"p", "x">>)
                 THEN parseInt(sliceEnd(value.str, 2))
                 ELSE parseInt(value.str)
            ELSE value
    IN  IF isNaN(parsed) THEN Num(0)
        ELSE IF Truthy(maximum) /\ Gt(parsed, maximum) THEN maximum ELSE parsed

\* Drawer.parseValue(value, reference, maximum?)
parseValue(value, reference, maximum) ==
    LET parsed ==
            IF typeof(value) = "string"
            THEN IF endsWith(value.str, <<"%">>)
                 THEN Mul(Div(parseInt(sliceEnd(value.str, 1)), Num(100)), reference)
                 ELSE IF endsWith(value.str, <<"p", "x">>)
                 THEN parseInt(sliceEnd(value.str, 2))
                 ELSE parseInt(value.str)
            ELSE value
    IN  IF isNaN(parsed) THEN Num(0)
        ELSE IF Truthy(maximum) /\ Gt(parsed, maximum) THEN maximum ELSE parsed

NumberInputs == {NaN} \cup {Rat(k, 2) : k \in (-MaxNumber)..MaxNumber}
SizeValues == NumberInputs \cup {String(s) : s \in Strings}
References == {Num(100), Num(200)}
Maxima == {Undefined, Num(0), Num(3)}

NoSizeCall == [value |-> Undefined, reference |-> Undefined, maximum |-> Undefined,
               parseSizeValue |-> Undefined, parseValue |-> Undefined]


\* the call Style.parseSizeValue(value, reference, maximum) returns
ParseSizeValue ==
    /\ sizeCall.value # Undefined
    /\ sizeCall.parseSizeValue = Undefined
    /\ sizeCall' = [sizeCall EXCEPT !.parseSizeValue =
                        parseSizeValue(sizeCall.value, sizeCall.reference, sizeCall.maximum)]
    /\ UNCHANGED <<colorCall, style, styleCall, svgCall, drawer, canvas, urls, calls, heap, other, runs>>

\* the call Drawer.parseValue(value, reference, maximum) returns
ParseValue ==
    /\ sizeCall.value # Undefined
    /\ sizeCall.parseValue = Undefined
    /\ sizeCall' = [sizeCall EXCEPT !.parseValue =
                        parseValue(sizeCall.value, sizeCall.reference, sizeCall.maximum)]
    /\ UNCHANGED <<colorCall, style, styleCall, svgCall, drawer, canvas, urls, calls, heap, other, runs>>

-----------------------------------------------------------------------------
(* Gradient model                                                          *)

MaxColors == 3          \* longest colour list of a gradient

Colors == {String("#000000"), String("#FFFFFF")}
Offsets == {Num(0), Num(50), Num(100)}

\* an array value, and the arrays of length k over the set S
Array(seq) == [items |-> seq]
ArraysOfLen(S, k) == {Array(seq) : seq \in [1..k -> S]}
length(array) == Len(array.items)

\* array[index] for a 0-based index; undefined outside the array
At(array, index) ==
    IF index + 1 \in 1..length(array) THEN array.items[index + 1] ELSE Undefined

\* colors.map((_, index, array) => (index / (array.length - 1)) * 100)
evenOffsets(colors) ==
    Array([i \in 1..length(colors) |->
            Mul(Div(Num(i - 1), Num(length(colors) - 1)), Num(100))])

\* parseColor as it would be if a given offset list were ignored and the
\* offsets always derived from the colours
parseColorDerivingOffsets(color) ==
    IF typeof(color) = "string"
    THEN [type |-> "linear",
          colors |-> Array(<<color>>),
          direction |-> Num(0),
          percentages |-> Array(<<Num(0), Num(100)>>)]
    ELSE IF color.type = "linear"
    THEN [type |-> "linear",
          colors |-> color.colors,
          direction |-> IF NotNull(color.direction) THEN color.direction ELSE Num(0),
          percentages |-> evenOffsets(color.colors)]
    ELSE [type |-> "radial",
          colors |-> color.colors,
          percentages |-> evenOffsets(color.colors),
          cx |-> IF NotNull(color.cx) THEN color.cx ELSE Num(50),
          cy |-> IF NotNull(color.cy) THEN color.cy ELSE Num(50),
          r  |-> IF NotNull(color.r) THEN color.r ELSE Num(50)]

\* Style.parseColor(color)
parseColor(color) ==
    IF typeof(color) = "string"
    THEN [type |-> "linear",
          colors |-> Array(<<color>>),
          direction |-> Num(0),
          percentages |-> Array(<<Num(0), Num(100)>>)]
    ELSE IF color.type = "linear"
    THEN [type |-> "linear",
          colors |-> color.colors,
          direction |-> IF NotNull(color.direction) THEN color.direction ELSE Num(0),
          percentages |-> IF NotNull(color.percentages) THEN color.percentages
                          ELSE evenOffsets(color.colors)]
    ELSE [type |-> "radial",
          colors |-> color.colors,
          percentages |-> IF NotNull(color.percentages) THEN color.percentages
                          ELSE evenOffsets(color.colors),
          cx |-> IF NotNull(color.cx) THEN color.cx ELSE Num(50),
          cy |-> IF NotNull(color.cy) THEN color.cy ELSE Num(50),
          r  |-> IF NotNull(color.r) THEN color.r ELSE Num(50)]

\* Math.cos / Math.sin of an angle in degrees, for the multiples of 90 only
\* (the other angles have irrational values)
Cos(angle) == CASE angle.n % 360 = 0 -> Num(1) [] angle.n % 360 = 180 -> Num(-1)
                [] OTHER -> Num(0)
Sin(angle) == CASE angle.n % 360 = 90 -> Num(1) [] angle.n % 360 = 270 -> Num(-1)
                [] OTHER -> Num(0)
MathAbs(x) == IF Gt(Num(0), x) THEN Mul(Num(-1), x) ELSE x
MathMax(a, b) == IF isNaN(a) \/ isNaN(b) THEN NaN ELSE IF Gt(b, a) THEN b ELSE a

\* Style.calculateBorderPosition(size, angle)
calculateBorderPosition(size, angle) ==
    LET xPrime == Cos(angle)
        yPrime == Sin(angle)
        k == Div(Div(size, Num(2)), MathMax(MathAbs(xPrime), MathAbs(yPrime)))
    IN  [x |-> Mul(k, xPrime), y |-> Mul(k, yPrime)]

\* Style.generateGradient(id, gradient, size, margin): the element it writes,
\* as a record of its tag, id, attributes and <stop> children
generateGradient(id, gradient, size, margin) ==
    LET type == IF gradient.type = "radial" THEN "radialGradient" ELSE "linearGradient"
        center == Div(size, Num(2))
        gradientSize == Sub(size, Mul(margin, Num(2)))
        parameters ==
            IF gradient.type = "linear"
            THEN LET p1 == calculateBorderPosition(gradientSize, Add(gradient.direction, Num(180)))
                     p2 == calculateBorderPosition(gradientSize, gradient.direction)
                 IN  [x1 |-> Add(p1.x, center), y1 |-> Add(p1.y, center),
                      x2 |-> Add(p2.x, center), y2 |-> Add(p2.y, center)]
            ELSE LET marginPer == Mul(Div(margin, size), Num(100))
                     gradientUnit == Div(gradientSize, Num(100))
                 IN  [cx |-> Add(Mul(gradientUnit, gradient.cx), margin),
                      cy |-> Add(Mul(gradientUnit, gradient.cy), margin),
                      r  |-> Sub(gradient.r, marginPer)]
        percentages == IF Truthy(gradient.percentages) THEN gradient.percentages
                       ELSE evenOffsets(gradient.colors)
        colors == [i \in 1..length(gradient.colors) |->
                    [offset |-> IF Truthy(At(percentages, i - 1))
                                THEN At(percentages, i - 1)
                                ELSE Mul(Div(Num(i - 1), Num(length(gradient.colors) - 1)), Num(100)),
                     color |-> At(gradient.colors, i - 1)]]
    IN  [tag |-> type, id |-> id, parameters |-> parameters, stops |-> colors]

ColorLists == UNION {ArraysOfLen(Colors, k) : k \in 1..MaxColors}
Directions == {Undefined, Num(90)}
Centers == {Undefined, Num(0)}

\* the partial gradient descriptions (Style.gradientOptions)
LinearOptions ==
    {[type |-> "linear", colors |-> cs, percentages |-> ps, direction |-> dir] :
        cs \in ColorLists, dir \in Directions,
        ps \in {Undefined} \cup UNION {ArraysOfLen(Offsets, k) : k \in 1..MaxColors}}
RadialOptions ==
    {[type |-> "radial", colors |-> cs, percentages |-> ps,
      cx |-> c.x, cy |-> c.y, r |-> c.r] :
        cs \in ColorLists,
        c \in [x : Centers, y : Centers, r : Centers],
        ps \in {Undefined} \cup UNION {ArraysOfLen(Offsets, k) : k \in 1..MaxColors}}
ColorInputs == Colors \cup {o \in LinearOptions \cup RadialOptions :
                               o.percentages # Undefined => length(o.percentages) = length(o.colors)}

NoColorCall == [color |-> Undefined, gradient |-> Undefined,
                again |-> Undefined, svg |-> Undefined]


\* gradient = Style.parseColor(color)
ParseColor ==
    /\ colorCall.color # Undefined
    /\ colorCall.gradient = Undefined
    /\ colorCall' = [colorCall EXCEPT !.gradient = parseColor(colorCall.color)]
    /\ UNCHANGED <<sizeCall, style, styleCall, svgCall, drawer, canvas, urls, calls, heap, other, runs>>

\* again = Style.parseColor(gradient): a normalised gradient assigned again
ParseColorAgain ==
    /\ colorCall.gradient # Undefined
    /\ colorCall.again = Undefined
    /\ colorCall' = [colorCall EXCEPT !.again = parseColor(colorCall.gradient)]
    /\ UNCHANGED <<sizeCall, style, styleCall, svgCall, drawer, canvas, urls, calls, heap, other, runs>>

GradientSizes == {[size |-> Num(200), margin |-> Num(0)],
                  [size |-> Num(400), margin |-> Num(100)]}

\* svg = Style.generateGradient(id, gradient, size, margin)
GenerateGradient ==
    /\ colorCall.gradient # Undefined
    /\ colorCall.svg = Undefined
    /\ \E g \in GradientSizes :
        colorCall' = [colorCall EXCEPT !.svg =
            generateGradient("gradient", colorCall.gradient, g.size, g.margin)]
    /\ UNCHANGED <<sizeCall, style, styleCall, svgCall, drawer, canvas, urls, calls, heap, other, runs>>

-----------------------------------------------------------------------------
(* Style                                                                   *)

MaxStylesKeys == 2      \* most keys of an object given to setStyles

\* new Style(matrixSideModules), with the field initialisers
newStyle(matrixSideModules) ==
    [matrixSideModules |-> matrixSideModules,
     moduleSize     |-> Num(100),
     matrixSize     |-> Mul(matrixSideModules, Num(100)),
     _moduleRadius  |-> Num(0),
     _moduleMargin  |-> Num(0),
     _padding       |-> Num(0),
     _margin        |-> Num(0),
     _background    |-> parseColor(String("#00B4FF")),
     _activeColor   |-> parseColor(String("#000000")),
     _inactiveColor |-> parseColor(String("#FFFFFF"))]

\* totalSize as it would be if the padding were counted on one side only
totalSizeOnePadding(s) ==
    LET t0 == s.matrixSize
        t1 == Add(t0, s._padding)
        t2 == Add(t1, Mul(s._margin, Num(2)))
    IN  t2

\* get totalSize
totalSize(s) ==
    LET t0 == s.matrixSize
        t1 == Add(t0, Mul(s._padding, Num(2)))
        t2 == Add(t1, Mul(s._margin, Num(2)))
    IN  t2

\* set margin
setMargin(s, margin) ==
    LET scaled == IF typeof(margin) = "number" THEN Mul(margin, s.moduleSize) ELSE margin
    IN  [s EXCEPT !._margin = parseSizeValue(scaled, s.matrixSize, Undefined)]

\* set padding
setPadding(s, padding) ==
    LET scaled == IF typeof(padding) = "number" THEN Mul(padding, s.moduleSize) ELSE padding
    IN  [s EXCEPT !._padding = parseSizeValue(scaled, s.matrixSize, Undefined)]

\* set moduleRadius
setModuleRadius(s, moduleRadius) ==
    LET moduleSize == s.moduleSize
        maximum == Mul(s.moduleSize, Rat(5, 10))
    IN  [s EXCEPT !._moduleRadius = parseSizeValue(moduleRadius, moduleSize, maximum)]

\* set moduleMargin
setModuleMargin(s, moduleMargin) ==
    LET moduleSize == s.moduleSize
        maximum == Mul(moduleSize, Rat(3, 10))
    IN  [s EXCEPT !._moduleMargin = parseSizeValue(moduleMargin, moduleSize, maximum)]

\* set background / activeColor / inactiveColor
setBackground(s, backgroundColor) == [s EXCEPT !._background = parseColor(backgroundColor)]
setActiveColor(s, activeColor) == [s EXCEPT !._activeColor = parseColor(activeColor)]
setInactiveColor(s, inactiveColor) == [s EXCEPT !._inactiveColor = parseColor(inactiveColor)]

\* setStyles as it would be if the guards tested truthiness (`if (styles.x)`)
setStylesTruthy(s, styles) ==
    LET Then(before, key, set(_, _)) ==
            {IF Truthy(styles[key]) THEN set(t, styles[key]) ELSE t : t \in before}
        s1 == Then({s}, "moduleRadius", setModuleRadius)
        s2 == Then(s1, "moduleMargin", setModuleMargin)
        s3 == Then(s2, "padding", setPadding)
        s4 == Then(s3, "margin", setMargin)
        s5 == Then(s4, "background", setBackground)
        s6 == Then(s5, "activeColor", setActiveColor)
        s7 == Then(s6, "inactiveColor", setInactiveColor)
    IN  CHOOSE after \in s7 : TRUE

\* setStyles(styles): the seven guarded assignments, in order.  Then(before,
\* key, set) is one statement `if (styles.key != null) this.key = styles.key`
\* run on the style it is given (a one-element set, so that each intermediate
\* style is a value)
setStyles(s, styles) ==
    LET Then(before, key, set(_, _)) ==
            {IF NotNull(styles[key]) THEN set(t, styles[key]) ELSE t : t \in before}
        s1 == Then({s}, "moduleRadius", setModuleRadius)
        s2 == Then(s1, "moduleMargin", setModuleMargin)
        s3 == Then(s2, "padding", setPadding)
        s4 == Then(s3, "margin", setMargin)
        s5 == Then(s4, "background", setBackground)
        s6 == Then(s5, "activeColor", setActiveColor)
        s7 == Then(s6, "inactiveColor", setInactiveColor)
    IN  CHOOSE after \in s7 : TRUE

\* the grid side of the Style under test (a version 1 QR code)
GridSides == {Num(21)}
StyleSizeInputs == {Num(-1), Num(0), String(<<"1", "0", "0", "0", "%">>)}
StyleColorInputs == {String("#FFFFFF")}

\* the Style.Styles objects passed to setStyles, with at most MaxStylesKeys
\* keys; an absent key reads undefined
StylesInputs ==
    {styles \in [moduleRadius : {Undefined, Num(0)}, moduleMargin : {Undefined, Num(0)},
                 padding : {Undefined, Num(0)}, margin : {Undefined, Num(0)},
                 background : {Undefined, String("#FFFFFF")},
                 activeColor : {Undefined, String("#FFFFFF")},
                 inactiveColor : {Undefined, String("#FFFFFF")}] :
        Cardinality({key \in DOMAIN styles : styles[key] # Undefined}) <= MaxStylesKeys}

NoStyle == Undefined
NoStyleCall == [op |-> "none", arg |-> Undefined]


StyleFrame == UNCHANGED <<sizeCall, colorCall, svgCall, drawer, canvas, urls, calls, heap, other, runs>>

SetMargin ==
    \E v \in StyleSizeInputs :
        /\ style' = setMargin(style, v)
        /\ styleCall' = [op |-> "margin", arg |-> v]
        /\ StyleFrame

SetPadding ==
    \E v \in StyleSizeInputs :
        /\ style' = setPadding(style, v)
        /\ styleCall' = [op |-> "padding", arg |-> v]
        /\ StyleFrame

SetModuleRadius ==
    \E v \in StyleSizeInputs :
        /\ style' = setModuleRadius(style, v)
        /\ styleCall' = [op |-> "moduleRadius", arg |-> v]
        /\ StyleFrame

SetModuleMargin ==
    \E v \in StyleSizeInputs :
        /\ style' = setModuleMargin(style, v)
        /\ styleCall' = [op |-> "moduleMargin", arg |-> v]
        /\ StyleFrame

SetBackground ==
    \E c \in StyleColorInputs :
        /\ style' = setBackground(style, c)
        /\ styleCall' = [op |-> "background", arg |-> c]
        /\ StyleFrame

SetActiveColor ==
    \E c \in StyleColorInputs :
        /\ style' = setActiveColor(style, c)
        /\ styleCall' = [op |-> "activeColor", arg |-> c]
        /\ StyleFrame

SetInactiveColor ==
    \E c \in StyleColorInputs :
        /\ style' = setInactiveColor(style, c)
        /\ styleCall' = [op |-> "inactiveColor", arg |-> c]
        /\ StyleFrame

SetStyles ==
    \E styles \in StylesInputs :
        /\ style' = setStyles(style, styles)
        /\ styleCall' = [op |-> "setStyles", arg |-> styles]
        /\ StyleFrame

-----------------------------------------------------------------------------
(* Style: paint slots and the objects a caller shares with them            *)
(*                                                                         *)
(* Objects and arrays are JavaScript reference values: a variable or a     *)
(* field holds the address of an object, and two holders of one address    *)
(* see each other's writes.  The heap is the sequence of the objects       *)
(* allocated so far; the address of an object is its index.  Strings and   *)
(* numbers are immutable and held by value.                                *)

MaxAssignments == 1     \* assignments of the caller's gradient to paint slots

Ref(address) == [ref |-> address]

PaintSlots == {"_background", "_activeColor", "_inactiveColor"}

\* the caller's object literal { type, colors: [...], percentages: [...], ... }:
\* its arrays and then the object itself are allocated
allocateOptions(objects, options) ==
    LET hasOffsets == options.percentages # Undefined
        arrays == IF hasOffsets THEN <<options.colors, options.percentages>>
                  ELSE <<options.colors>>
        object == [options EXCEPT
                      !.colors = Ref(Len(objects) + 1),
                      !.percentages = IF hasOffsets THEN Ref(Len(objects) + 2)
                                      ELSE Undefined]
    IN  [objects |-> (objects \o arrays) \o <<object>>,
         ref |-> Ref(Len(objects) + Len(arrays) + 1)]

\* Style.parseColor(color) on the heap: the object literal it returns is a new
\* object; `colors: color.colors` and `percentages: color.percentages` store
\* the addresses of the caller's arrays; `[color]`, `[0, 100]` and the result
\* of colors.map(...) are new arrays
parseColorOnHeap(objects, color) ==
    IF typeof(color) = "string"
    THEN [objects |-> objects \o
                <<Array(<<color>>), Array(<<Num(0), Num(100)>>),
                  [type |-> "linear", colors |-> Ref(Len(objects) + 1),
                   direction |-> Num(0), percentages |-> Ref(Len(objects) + 2)]>>,
          ref |-> Ref(Len(objects) + 3)]
    ELSE LET options == objects[color.ref]
             derived == ~NotNull(options.percentages)
             arrays == IF derived THEN <<evenOffsets(objects[options.colors.ref])>>
                       ELSE <<>>
             percentages == IF derived THEN Ref(Len(objects) + 1)
                            ELSE options.percentages
             gradient ==
                IF options.type = "linear"
                THEN [type |-> "linear", colors |-> options.colors,
                      direction |-> IF NotNull(options.direction) THEN options.direction
                                    ELSE Num(0),
                      percentages |-> percentages]
                ELSE [type |-> "radial", colors |-> options.colors,
                      percentages |-> percentages,
                      cx |-> IF NotNull(options.cx) THEN options.cx ELSE Num(50),
                      cy |-> IF NotNull(options.cy) THEN options.cy ELSE Num(50),
                      r  |-> IF NotNull(options.r) THEN options.r ELSE Num(50)]
         IN  [objects |-> (objects \o arrays) \o <<gradient>>,
              ref |-> Ref(Len(objects) + Len(arrays) + 1)]

\* the value an object holds: its fields, with the arrays it refers to
valueOf(objects, r) ==
    LET object == objects[r.ref]
    IN  [field \in DOMAIN object |->
            IF field \in {"colors", "percentages"} /\ object[field] # Undefined
            THEN objects[object[field].ref]
            ELSE object[field]]

\* new Style(matrixSideModules) on the heap: the three paints are the
\* gradients of the constructor's default colours
newStyleOnHeap(matrixSideModules) ==
    LET background == parseColorOnHeap(<<>>, String("#00B4FF"))
        activeColor == parseColorOnHeap(background.objects, String("#000000"))
        inactiveColor == parseColorOnHeap(activeColor.objects, String("#FFFFFF"))
    IN  [objects |-> inactiveColor.objects,
         style |-> [newStyle(matrixSideModules) EXCEPT
                        !._background = background.ref,
                        !._activeColor = activeColor.ref,
                        !._inactiveColor = inactiveColor.ref]]

\* the gradients a caller builds before it assigns them
CallerGradients ==
    {[type |-> "linear", colors |-> Array(<<String("#000000"), String("#FFFFFF")>>),
      percentages |-> ps, direction |-> Undefined] :
        ps \in {Undefined, Array(<<Num(0), Num(100)>>)}}
    \cup
    {[type |-> "radial", colors |-> Array(<<String("#000000"), String("#FFFFFF")>>),
      percentages |-> ps, cx |-> Undefined, cy |-> Undefined, r |-> Num(0)] :
        ps \in {Undefined, Array(<<Num(0), Num(100)>>)}}

\* the caller's gradient object and its arrays
CallerGradient == heap.objects[heap.gradient.ref]
CallerColors == CallerGradient.colors.ref
CallerOffsets == CallerGradient.percentages.ref

HeapFrame == UNCHANGED <<sizeCall, colorCall, svgCall, drawer, canvas, urls, calls,
                         other, runs>>

\* style.background = gradient (or activeColor, inactiveColor): the setter
\* stores parseColor(gradient)
AssignPaint ==
    /\ styleCall.arg < MaxAssignments
    /\ \E slot \in PaintSlots :
        LET parsed == parseColorOnHeap(heap.objects, heap.gradient)
        IN  /\ heap' = [heap EXCEPT !.objects = parsed.objects]
            /\ style' = [style EXCEPT ![slot] = parsed.ref]
            /\ styleCall' = [op |-> slot, arg |-> styleCall.arg + 1]
    /\ HeapFrame

\* the caller writes gradient.colors[index] = color
CallerSetsColor ==
    /\ \E i \in 1..length(heap.objects[CallerColors]), color \in Colors :
        heap' = [heap EXCEPT !.objects[CallerColors].items[i] = color]
    /\ UNCHANGED <<style, styleCall>>
    /\ HeapFrame

\* the caller calls gradient.colors.push(color)
CallerPushesColor ==
    /\ length(heap.objects[CallerColors]) < MaxColors
    /\ heap' = [heap EXCEPT !.objects[CallerColors].items = Append(@, String("#000000"))]
    /\ UNCHANGED <<style, styleCall>>
    /\ HeapFrame

\* the caller writes gradient.percentages[index] = 50
CallerSetsOffset ==
    /\ CallerGradient.percentages # Undefined
    /\ \E i \in 1..length(heap.objects[CallerOffsets]) :
        heap' = [heap EXCEPT !.objects[CallerOffsets].items[i] = Num(50)]
    /\ UNCHANGED <<style, styleCall>>
    /\ HeapFrame

\* the caller writes gradient.direction = 90
CallerSetsDirection ==
    /\ CallerGradient.type = "linear"
    /\ heap' = [heap EXCEPT !.objects[heap.gradient.ref].direction = Num(90)]
    /\ UNCHANGED <<style, styleCall>>
    /\ HeapFrame

-----------------------------------------------------------------------------
(* Drawer: fields and markup generation                                    *)

MaxSide == 2            \* largest module grid side
MaxCapacity == 130      \* largest capacity metric (qr.QRMatrix.maxBitsData)

Null == [null |-> TRUE]

\* new Drawer(qr, imageSize), with the field initialisers
newDrawer(qr, imageSize) ==
    [qr |-> qr,
     imageSize |-> imageSize,
     image |-> Null,
     _moduleRadius |-> Num(0),
     _ModuleRadius |-> Num(0),
     _moduleMargin |-> Num(0),
     _ModuleMargin |-> Num(0),
     _backgroundColor |-> String("#00B4FF")]

\* the canvas the constructor creates, nothing drawn on it yet
newCanvas(imageSize) == [width |-> imageSize, height |-> imageSize, drawn |-> <<>>]

\* get moduleSize
moduleSize(d) == Floor(Div(d.imageSize, d.qr.size))

\* Drawer.generateSvg(width, height, content): the <svg> element
generateSvg(width, height, content) ==
    [tag |-> "svg", version |-> "1.1", width |-> width, height |-> height,
     viewBox |-> <<Num(0), Num(0), width, height>>, content |-> content]

RECURSIVE Flatten(_)
Flatten(seqs) == IF Len(seqs) = 0 THEN <<>> ELSE Head(seqs) \o Flatten(Tail(seqs))

\* fillColor as it would be with the paints of -2 and -3 exchanged
fillColorExchanged(bit) ==
    IF bit < 0
    THEN IF bit = -1 THEN "red" ELSE IF bit = -2 THEN "yellow" ELSE "green"
    ELSE IF bit = 1 THEN "black" ELSE "white"

\* drawMatrix: the paint of a module value (const fillColor)
fillColor(bit) ==
    IF bit < 0
    THEN IF bit = -1 THEN "red" ELSE IF bit = -2 THEN "green" ELSE "yellow"
    ELSE IF bit = 1 THEN "black" ELSE "white"

\* drawMatrixSvg as it would be if the module radius were kept in a static
\* field, written by whichever instance was configured last
drawMatrixSvgSharedRadius(d, matrix) ==
    LET increaseFactor == Num(1000)
        svgSize == Mul(Mul(moduleSize(d), d.qr.size), increaseFactor)
        mSize == Mul(moduleSize(d), increaseFactor)
        padding == Num(0)
        moduleMargin == Mul(d._moduleMargin, increaseFactor)
        moduleRadius == Mul(IF other = Undefined THEN d._moduleRadius
                            ELSE other.drawer._moduleRadius, increaseFactor)
        pointSize == Sub(mSize, moduleMargin)
        rect(bit, posCol, posRow) ==
            [tag |-> "rect", x |-> posCol, y |-> posRow,
             width |-> pointSize, height |-> pointSize,
             rx |-> moduleRadius, ry |-> moduleRadius,
             fill |-> fillColor(bit), stroke |-> fillColor(bit),
             strokeWidth |-> Mul(Num(1), increaseFactor)]
        rows == [i \in 1..Len(matrix.data) |->
                    [j \in 1..Len(matrix.data[i]) |->
                        rect(matrix.data[i][j],
                             Add(padding, Mul(Num(j - 1), mSize)),
                             Add(padding, Mul(Num(i - 1), mSize)))]]
        svgContent ==
            <<[tag |-> "rect", width |-> svgSize, height |-> svgSize,
               fill |-> d._backgroundColor]>> \o Flatten(rows)
    IN  generateSvg(svgSize, svgSize, svgContent)

\* drawMatrix(ctx, matrix), up to the call of drawSvg: the markup it builds
drawMatrixSvg(d, matrix) ==
    LET increaseFactor == Num(1000)
        svgSize == Mul(Mul(moduleSize(d), d.qr.size), increaseFactor)
        mSize == Mul(moduleSize(d), increaseFactor)
        padding == Num(0)
        moduleMargin == Mul(d._moduleMargin, increaseFactor)
        moduleRadius == Mul(d._moduleRadius, increaseFactor)
        pointSize == Sub(mSize, moduleMargin)
        rect(bit, posCol, posRow) ==
            [tag |-> "rect", x |-> posCol, y |-> posRow,
             width |-> pointSize, height |-> pointSize,
             rx |-> moduleRadius, ry |-> moduleRadius,
             fill |-> fillColor(bit), stroke |-> fillColor(bit),
             strokeWidth |-> Mul(Num(1), increaseFactor)]
        rows == [i \in 1..Len(matrix.data) |->
                    [j \in 1..Len(matrix.data[i]) |->
                        rect(matrix.data[i][j],
                             Add(padding, Mul(Num(j - 1), mSize)),
                             Add(padding, Mul(Num(i - 1), mSize)))]]
        svgContent ==
            <<[tag |-> "rect", width |-> svgSize, height |-> svgSize,
               fill |-> d._backgroundColor]>> \o Flatten(rows)
    IN  generateSvg(svgSize, svgSize, svgContent)

\* Math.floor(Math.sqrt(n)) of a non-negative integer n
FloorSqrt(n) == CHOOSE k \in 0..n : k * k <= n /\ (k + 1) * (k + 1) > n

\* iconModules as it would be without the decrement of an even side
iconModulesUnadjusted(qrArea) ==
    LET iconArea == Floor(Mul(qrArea, Rat(15, 100)))
        iconSize == FloorSqrt(iconArea.n)
    IN  iconSize

\* drawImage: the icon side in modules, before it is scaled
iconModules(qrArea) ==
    LET iconArea == Floor(Mul(qrArea, Rat(15, 100)))
        iconSize == FloorSqrt(iconArea.n)
    IN  IF iconSize % 2 = 0 THEN iconSize - 1 ELSE iconSize

\* drawImage(ctx, image), up to the call of drawSvg: the markup it builds
drawImageSvg(d, image) ==
    LET increaseFactor == Num(1000)
        qrArea == d.qr.QRMatrix.maxBitsData
        iconSize == Mul(Num(iconModules(qrArea)), Mul(moduleSize(d), increaseFactor))
        svgSize == Mul(Mul(moduleSize(d), d.qr.size), increaseFactor)
        border == Mul(Num(1), increaseFactor)
        centerOffset == Sub(Sub(Div(svgSize, Num(2)), Div(iconSize, Num(2))),
                            Div(border, Num(2)))
    IN  generateSvg(svgSize, svgSize,
            <<[tag |-> "rect", stroke |-> "black", strokeWidth |-> Div(border, Num(2)),
               x |-> centerOffset, y |-> centerOffset,
               width |-> iconSize, height |-> iconSize, fill |-> d._backgroundColor],
              [tag |-> "image", x |-> centerOffset, y |-> centerOffset, fill |-> "red",
               width |-> iconSize, xlinkHeight |-> iconSize, href |-> image]>>)

ModuleValues == {1, 0, -1, -2, -3}

\* the square grids of a side: active / inactive modules, one cell of which
\* may hold any module value
MatricesOfSide(side) ==
    {[base EXCEPT ![i][j] = v] :
        base \in [1..side -> [1..side -> {0, 1}]],
        i \in 1..side, j \in 1..side, v \in ModuleValues}

\* qr objects: every grid with one capacity, and one grid with every capacity
gridQR(data) == [size |-> Num(Len(data)), debugMode |-> TRUE,
                 QRMatrix |-> [data |-> data, maxBitsData |-> Num(60)]]
capacityQR(c) == [size |-> Num(2), debugMode |-> FALSE,
                  QRMatrix |-> [data |-> <<<<1, 0>>, <<0, 1>>>>, maxBitsData |-> Num(c)]]
QRs == {gridQR(data) : data \in UNION {MatricesOfSide(side) : side \in 1..MaxSide}}
        \cup {capacityQR(c) : c \in 0..MaxCapacity}

\* image sizes given to Drawer.create: the default and an explicit one
ImageSizes(qr) == {Mul(qr.size, Num(10)), Num(25)}

Images == {String("data:a"), String("data:b")}

NoDrawer == Undefined
NoHeap == Undefined
NoOther == Undefined
NoRuns == <<>>
NoSvgCall == [matrix |-> Undefined, icon |-> Undefined]
NoCanvas == Undefined
NoUrls == [created |-> {}, revoked |-> {}]


\* the markup generation of drawMatrix(this.ctx, this.qr.QRMatrix)
DrawMatrixMarkup ==
    /\ drawer # NoDrawer
    /\ svgCall.matrix = Undefined
    /\ svgCall' = [svgCall EXCEPT !.matrix = drawMatrixSvg(drawer, drawer.qr.QRMatrix)]
    /\ UNCHANGED <<sizeCall, colorCall, style, styleCall, drawer, canvas, urls, calls, heap, other, runs>>

\* the markup generation of drawImage(this.ctx, image)
DrawImageMarkup ==
    /\ drawer # NoDrawer
    /\ svgCall.icon = Undefined
    /\ \E image \in Images :
        svgCall' = [svgCall EXCEPT !.icon = drawImageSvg(drawer, image)]
    /\ UNCHANGED <<sizeCall, colorCall, style, styleCall, drawer, canvas, urls, calls, heap, other, runs>>

-----------------------------------------------------------------------------
(* Drawer: the size, moduleRadius and moduleMargin setters                 *)

\* calculateMargin()
calculateMargin(d) ==
    LET maxMargin == Mul(moduleSize(d), Rat(2, 10))
    IN  [d EXCEPT !._moduleMargin = parseValue(d._ModuleMargin, moduleSize(d), maxMargin)]

\* calculateRadius()
calculateRadius(d) ==
    LET maxRadius == Mul(moduleSize(d), Rat(5, 10))
    IN  [d EXCEPT !._moduleRadius = parseValue(d._ModuleRadius, moduleSize(d), maxRadius)]

\* recalculate()
recalculate(d) == calculateRadius(calculateMargin(d))

\* set size(size), as far as the Drawer's fields go
setSize(d, size) == recalculate([d EXCEPT !.imageSize = size])

\* set size(size) on the canvas: writing canvas.width / canvas.height resizes
\* the canvas, which clears it
resizeCanvas(cv, size) == [cv EXCEPT !.width = size, !.height = size, !.drawn = <<>>]

\* set moduleMargin(margin) of the Drawer
setDrawerModuleMargin(d, margin) == calculateMargin([d EXCEPT !._ModuleMargin = margin])

\* set moduleRadius(radius) of the Drawer
setDrawerModuleRadius(d, radius) == calculateRadius([d EXCEPT !._ModuleRadius = radius])

\* image sizes assigned to drawer.size: smaller than the grid side, a multiple
\* of it and not a multiple of it
DrawerSizes == {Num(1), Num(20), Num(25)}

\* values assigned to drawer.moduleRadius / drawer.moduleMargin
DrawerSizeInputs == {Num(0), Num(1), Num(7), String(<<"5", "0", "%">>)}

\* the qr objects of the Drawers whose setters are exercised
ConfigQRs == {capacityQR(60),
              gridQR(<<<<1, 0, -1>>, <<0, 1, 0>>, <<-2, -3, 1>>>>)}

\* the setters leave everything but the Drawer and its canvas alone; markup
\* generated before the assignment no longer describes the Drawer
ConfigFrame ==
    /\ svgCall' = NoSvgCall
    /\ UNCHANGED <<sizeCall, colorCall, style, styleCall, urls, calls, heap, other, runs>>

\* drawer.size = size
DrawerSetSize ==
    /\ drawer # NoDrawer
    /\ \E size \in DrawerSizes :
        /\ drawer' = setSize(drawer, size)
        /\ canvas' = resizeCanvas(canvas, size)
    /\ ConfigFrame

\* drawer.moduleMargin = margin
DrawerSetModuleMargin ==
    /\ drawer # NoDrawer
    /\ \E margin \in DrawerSizeInputs :
        drawer' = setDrawerModuleMargin(drawer, margin)
    /\ UNCHANGED canvas
    /\ ConfigFrame

\* drawer.moduleRadius = radius
DrawerSetModuleRadius ==
    /\ drawer # NoDrawer
    /\ \E radius \in DrawerSizeInputs :
        drawer' = setDrawerModuleRadius(drawer, radius)
    /\ UNCHANGED canvas
    /\ ConfigFrame

-----------------------------------------------------------------------------
(* Markup generation on one instance while other instances are in use      *)

MaxRuns == 2            \* markup generations on the instance under observation

\* Style.drawStyles(style): the <style> rules and the <defs> gradients
drawStyles(s) ==
    [style |-> <<"#active-modules { fill: url(#active-gradient); }",
                 "#inactive-modules { fill: url(#inactive-gradient); }",
                 "#background { fill: url(#background-gradient); }">>,
     defs |-> <<generateGradient("active-gradient", s._activeColor, totalSize(s), s._margin),
                generateGradient("inactive-gradient", s._inactiveColor, totalSize(s), s._margin),
                generateGradient("background-gradient", s._background, totalSize(s), s._margin)>>]

\* everything one instance emits: the matrix markup, the icon markup and the
\* styles
markupOf(d, s, image) ==
    [matrix |-> drawMatrixSvg(d, d.qr.QRMatrix),
     icon |-> drawImageSvg(d, image),
     styles |-> drawStyles(s)]

\* the Style instances markup is generated for
ObservedStyles ==
    {newStyle(Num(2)),
     setMargin(setActiveColor(newStyle(Num(2)),
                   [type |-> "radial", colors |-> Array(<<String("#000000"), String("#FFFFFF")>>),
                    percentages |-> Undefined, cx |-> Undefined, cy |-> Undefined,
                    r |-> Undefined]),
               Num(1))}

\* values assigned to the other Drawer's moduleRadius and the other Style's
\* margin
OtherRadiusInputs == {Num(1), Num(7)}
OtherMarginInputs == {Num(1)}

OtherFrame == UNCHANGED <<sizeCall, colorCall, style, styleCall, svgCall, drawer, canvas,
                          urls, calls, heap, runs>>

\* a markup generation on the observed instance; the run records what the
\* generation was given and what it emitted (and, for reference, the radius
\* the other Drawer had at the time)
GenerateMarkup ==
    /\ Len(runs) < MaxRuns
    /\ \E image \in Images :
        runs' = Append(runs, [input |-> [drawer |-> drawer, style |-> style, icon |-> image],
                              output |-> markupOf(drawer, style, image),
                              beside |-> other.drawer._ModuleRadius])
    /\ UNCHANGED <<sizeCall, colorCall, style, styleCall, svgCall, drawer, canvas,
                   urls, calls, heap, other>>

\* otherDrawer.size = size
OtherSetSize ==
    /\ \E size \in DrawerSizes :
        other' = [other EXCEPT !.drawer = setSize(@, size), !.markup = Undefined]
    /\ OtherFrame

\* otherDrawer.moduleRadius = radius
OtherSetModuleRadius ==
    /\ \E radius \in OtherRadiusInputs :
        other' = [other EXCEPT !.drawer = setDrawerModuleRadius(@, radius),
                               !.markup = Undefined]
    /\ OtherFrame

\* otherStyle.margin = margin
OtherSetMargin ==
    /\ \E margin \in OtherMarginInputs :
        other' = [other EXCEPT !.style = setMargin(@, margin), !.markup = Undefined]
    /\ OtherFrame

\* a markup generation on the other instance
OtherGenerateMarkup ==
    /\ other.markup = Undefined
    /\ other' = [other EXCEPT !.markup = markupOf(other.drawer, other.style, String("data:a"))]
    /\ OtherFrame

-----------------------------------------------------------------------------
(* Drawer: the async operations dataUrl, reDraw, addImage                  *)
(*                                                                         *)
(* JavaScript runs one task at a time: an action is one task of the event  *)
(* loop, that is the code a call runs from one suspension (a fetch, a      *)
(* FileReader, an image decode) to the next, with the promise reactions    *)
(* that follow it.  Whether a fetch, a read or a decode succeeds is the    *)
(* environment's choice.                                                   *)

MaxCalls == 2           \* calls issued on the Drawer

Calls == 1..MaxCalls
Sources == {"a", "b"}

\* what FileReader.readAsDataURL yields for the bytes fetched from a source
dataUrlOf(src) == String(<<"data:", src>>)

\* a call not issued yet
idleCall == [op |-> "none", pc |-> "idle", src |-> Undefined, image |-> Undefined,
             imageBefore |-> Undefined, assigned |-> FALSE, result |-> Undefined,
             error |-> Undefined, issuedAfter |-> {}]

NoCalls == [c \in Calls |-> idleCall]

\* the drawers the async calls run on
AsyncQRs == {capacityQR(60)}


DrawerFrame == UNCHANGED <<sizeCall, colorCall, style, styleCall, svgCall, heap, other, runs>>

\* drawSvg up to its await: URL.createObjectURL(svgBlob); img.src = url
createObjectURL(u, c, stage) == [u EXCEPT !.created = @ \cup {<<c, stage>>}]

\* URL.revokeObjectURL(url)
revokeObjectURL(u, c, stage) == [u EXCEPT !.revoked = @ \cup {<<c, stage>>}]

\* img.onload of drawSvg: ctx.drawImage(img, x, y, width, height)
ctxDrawImage(cv, c, stage, image) ==
    [cv EXCEPT !.drawn = Append(@, [call |-> c, stage |-> stage, image |-> image])]

\* reDraw() / dataUrl() is called: drawMatrix builds the markup and drawSvg
\* starts decoding it
CallReDraw(c, op) ==
    /\ calls[c].pc = "idle"
    /\ calls' = [calls EXCEPT ![c] = [@ EXCEPT !.op = op, !.pc = "matrixLoad",
                                              !.imageBefore = drawer.image,
                                              !.issuedAfter = {o \in Calls :
                                                    calls[o].pc = "resolved"}]]
    /\ urls' = createObjectURL(urls, c, "matrix")
    /\ UNCHANGED <<drawer, canvas>>
    /\ DrawerFrame

\* addImage(url) is called: loadImage starts the fetch
CallAddImage(c, src) ==
    /\ calls[c].pc = "idle"
    /\ calls' = [calls EXCEPT ![c] = [@ EXCEPT !.op = "addImage", !.pc = "fetch",
                                              !.src = src,
                                              !.imageBefore = drawer.image]]
    /\ UNCHANGED <<drawer, canvas, urls>>
    /\ DrawerFrame

\* the promise of a call rejects: every awaiting caller up to the call rethrows
reject(c, error) ==
    calls' = [calls EXCEPT ![c] = [@ EXCEPT !.pc = "rejected", !.error = error]]

\* `await fetch(src)` resolves; rs.blob() is awaited
FetchResolve(c) ==
    /\ calls[c].pc = "fetch"
    /\ calls' = [calls EXCEPT ![c] = [@ EXCEPT !.pc = "blob"]]
    /\ UNCHANGED <<drawer, canvas, urls>>
    /\ DrawerFrame

\* `await fetch(src)` rejects
FetchReject(c) ==
    /\ calls[c].pc = "fetch"
    /\ reject(c, "fetch")
    /\ UNCHANGED <<drawer, canvas, urls>>
    /\ DrawerFrame

\* `await rs.blob()` resolves; reader.readAsDataURL(blob) is started
BlobResolve(c) ==
    /\ calls[c].pc = "blob"
    /\ calls' = [calls EXCEPT ![c] = [@ EXCEPT !.pc = "read"]]
    /\ UNCHANGED <<drawer, canvas, urls>>
    /\ DrawerFrame

\* `await rs.blob()` rejects
BlobReject(c) ==
    /\ calls[c].pc = "blob"
    /\ reject(c, "blob")
    /\ UNCHANGED <<drawer, canvas, urls>>
    /\ DrawerFrame

\* reader.onload: loadImage resolves; addImage stores the data URL and calls
\* drawImage, whose drawSvg starts decoding the icon markup
ReaderLoad(c) ==
    /\ calls[c].pc = "read"
    /\ LET dataUrl == dataUrlOf(calls[c].src)
       IN  /\ drawer' = [drawer EXCEPT !.image = dataUrl]
           /\ calls' = [calls EXCEPT ![c] = [@ EXCEPT !.pc = "iconLoad",
                                                     !.image = dataUrl,
                                                     !.assigned = TRUE]]
    /\ urls' = createObjectURL(urls, c, "icon")
    /\ UNCHANGED canvas
    /\ DrawerFrame

\* reader.onerror: loadImage rejects with 'Error loading image'
ReaderError(c) ==
    /\ calls[c].pc = "read"
    /\ reject(c, "Error loading image")
    /\ UNCHANGED <<drawer, canvas, urls>>
    /\ DrawerFrame

\* the value a finished call resolves with: dataUrl() returns canvas.toDataURL()
resolved(frame, cv) ==
    [frame EXCEPT !.pc = "resolved",
                  !.result = IF frame.op = "dataUrl" THEN cv.drawn ELSE Undefined]

\* MatrixLoad as it would be if reDraw ended after drawMatrix
MatrixLoadWithoutIcon(c) ==
    /\ calls[c].pc = "matrixLoad"
    /\ canvas' = ctxDrawImage(canvas, c, "matrix", Null)
    /\ calls' = [calls EXCEPT ![c] = resolved(@, canvas')]
    /\ urls' = revokeObjectURL(urls, c, "matrix")
    /\ UNCHANGED drawer
    /\ DrawerFrame

\* img.onload of the matrix markup: the matrix is drawn, drawSvg revokes the
\* URL, and reDraw goes on to drawImage if an icon is stored
MatrixLoad(c) ==
    /\ calls[c].pc = "matrixLoad"
    /\ canvas' = ctxDrawImage(canvas, c, "matrix", Null)
    /\ IF drawer.image # Null
       THEN /\ calls' = [calls EXCEPT ![c] = [@ EXCEPT !.pc = "iconLoad",
                                                      !.image = drawer.image]]
            /\ urls' = createObjectURL(revokeObjectURL(urls, c, "matrix"), c, "icon")
       ELSE /\ calls' = [calls EXCEPT ![c] = resolved(@, canvas')]
            /\ urls' = revokeObjectURL(urls, c, "matrix")
    /\ UNCHANGED drawer
    /\ DrawerFrame

\* img.onload of the icon markup: the icon is drawn, drawSvg revokes the URL
\* and the call (reDraw, dataUrl or addImage) completes
IconLoad(c) ==
    /\ calls[c].pc = "iconLoad"
    /\ canvas' = ctxDrawImage(canvas, c, "icon", calls[c].image)
    /\ calls' = [calls EXCEPT ![c] = resolved(@, canvas')]
    /\ urls' = revokeObjectURL(urls, c, "icon")
    /\ UNCHANGED drawer
    /\ DrawerFrame

\* img.onerror of drawSvg: 'Error drawing SVG'; the await throws, so the
\* statement after it (revokeObjectURL) is not reached
ImageError(c) ==
    /\ calls[c].pc \in {"matrixLoad", "iconLoad"}
    /\ reject(c, "Error drawing SVG")
    /\ UNCHANGED <<drawer, canvas, urls>>
    /\ DrawerFrame

-----------------------------------------------------------------------------------------------------------------------------------------------------
(* Specifications                                                          *)

\* the arguments of one call of the resolvers; nothing else exists
InitResolve ==
    /\ \E v \in SizeValues, r \in References, m \in Maxima :
        sizeCall = [value |-> v, reference |-> r, maximum |-> m,
                    parseSizeValue |-> Undefined, parseValue |-> Undefined]
    /\ colorCall = NoColorCall
    /\ style = NoStyle /\ styleCall = NoStyleCall
    /\ svgCall = NoSvgCall
    /\ drawer = NoDrawer /\ canvas = NoCanvas
    /\ urls = NoUrls /\ calls = NoCalls
    /\ heap = NoHeap /\ other = NoOther /\ runs = NoRuns

\* the size-value resolvers applied to every bounded input
NextResolve == ParseSizeValue \/ ParseValue
SpecResolve == InitResolve /\ [][NextResolve]_vars

\* the argument of one call of parseColor; nothing else exists
InitGradient ==
    /\ \E c \in ColorInputs :
        colorCall = [color |-> c, gradient |-> Undefined,
                     again |-> Undefined, svg |-> Undefined]
    /\ sizeCall = NoSizeCall
    /\ style = NoStyle /\ styleCall = NoStyleCall
    /\ svgCall = NoSvgCall
    /\ drawer = NoDrawer /\ canvas = NoCanvas
    /\ urls = NoUrls /\ calls = NoCalls
    /\ heap = NoHeap /\ other = NoOther /\ runs = NoRuns

\* the gradient model applied to every bounded input
NextGradient == ParseColor \/ ParseColorAgain \/ GenerateGradient
SpecGradient == InitGradient /\ [][NextGradient]_vars

\* a Style just constructed for a grid side
InitStyle ==
    /\ \E side \in GridSides :
        /\ style = newStyle(side)
        /\ styleCall = [op |-> "constructor", arg |-> side]
    /\ sizeCall = NoSizeCall
    /\ colorCall = NoColorCall
    /\ svgCall = NoSvgCall
    /\ drawer = NoDrawer /\ canvas = NoCanvas
    /\ urls = NoUrls /\ calls = NoCalls
    /\ heap = NoHeap /\ other = NoOther /\ runs = NoRuns

\* one Style instance under any sequence of setter and setStyles calls
NextStyle ==
    \/ SetMargin \/ SetPadding \/ SetModuleRadius \/ SetModuleMargin
    \/ SetBackground \/ SetActiveColor \/ SetInactiveColor
    \/ SetStyles
SpecStyle == InitStyle /\ [][NextStyle]_vars

\* a Drawer just created for a qr, no markup generated yet
InitMarkup ==
    /\ \E qr \in QRs : \E imageSize \in ImageSizes(qr) :
        /\ drawer = newDrawer(qr, imageSize)
        /\ canvas = newCanvas(imageSize)
    /\ svgCall = NoSvgCall
    /\ sizeCall = NoSizeCall
    /\ colorCall = NoColorCall
    /\ style = NoStyle /\ styleCall = NoStyleCall
    /\ urls = NoUrls /\ calls = NoCalls
    /\ heap = NoHeap /\ other = NoOther /\ runs = NoRuns

\* the markup a Drawer generates for every bounded qr
NextMarkup == DrawMatrixMarkup \/ DrawImageMarkup
SpecMarkup == InitMarkup /\ [][NextMarkup]_vars

\* a Drawer just created with the default image size, no call issued yet
InitDrawer ==
    /\ \E qr \in AsyncQRs :
        /\ drawer = newDrawer(qr, Mul(qr.size, Num(10)))
        /\ canvas = newCanvas(Mul(qr.size, Num(10)))
    /\ urls = NoUrls /\ calls = NoCalls
    /\ sizeCall = NoSizeCall
    /\ colorCall = NoColorCall
    /\ style = NoStyle /\ styleCall = NoStyleCall
    /\ svgCall = NoSvgCall
    /\ heap = NoHeap /\ other = NoOther /\ runs = NoRuns

\* the async calls issued on one Drawer, in any interleaving of their tasks
NextDrawer ==
    \E c \in Calls :
        \/ CallReDraw(c, "reDraw")
        \/ CallReDraw(c, "dataUrl")
        \/ \E src \in Sources : CallAddImage(c, src)
        \/ FetchResolve(c) \/ FetchReject(c)
        \/ BlobResolve(c) \/ BlobReject(c)
        \/ ReaderLoad(c) \/ ReaderError(c)
        \/ MatrixLoad(c) \/ IconLoad(c) \/ ImageError(c)
SpecDrawer == InitDrawer /\ [][NextDrawer]_vars

\* a Style just constructed, and a gradient the caller has built
InitAlias ==
    /\ \E options \in CallerGradients :
        LET constructed == newStyleOnHeap(Num(21))
            literal == allocateOptions(constructed.objects, options)
        IN  /\ style = constructed.style
            /\ heap = [objects |-> literal.objects, gradient |-> literal.ref]
    /\ styleCall = [op |-> "constructor", arg |-> 0]
    /\ sizeCall = NoSizeCall
    /\ colorCall = NoColorCall
    /\ svgCall = NoSvgCall
    /\ drawer = NoDrawer /\ canvas = NoCanvas
    /\ urls = NoUrls /\ calls = NoCalls
    /\ other = NoOther /\ runs = NoRuns

\* the caller assigns its gradient to paint slots and goes on changing it
NextAlias ==
    \/ AssignPaint
    \/ CallerSetsColor \/ CallerPushesColor \/ CallerSetsOffset \/ CallerSetsDirection
SpecAlias == InitAlias /\ [][NextAlias]_vars

\* a Drawer just created with the default image size
InitConfig ==
    /\ \E qr \in ConfigQRs :
        /\ drawer = newDrawer(qr, Mul(qr.size, Num(10)))
        /\ canvas = newCanvas(Mul(qr.size, Num(10)))
    /\ svgCall = NoSvgCall
    /\ sizeCall = NoSizeCall
    /\ colorCall = NoColorCall
    /\ style = NoStyle /\ styleCall = NoStyleCall
    /\ urls = NoUrls /\ calls = NoCalls
    /\ heap = NoHeap /\ other = NoOther /\ runs = NoRuns

\* one Drawer under any sequence of assignments to size, moduleRadius and
\* moduleMargin, and the matrix markup it generates
NextConfig ==
    \/ DrawerSetSize \/ DrawerSetModuleMargin \/ DrawerSetModuleRadius
    \/ DrawMatrixMarkup
SpecConfig == InitConfig /\ [][NextConfig]_vars

\* an observed Drawer and Style, and a second Drawer and Style beside them
InitDeterminism ==
    /\ \E qr \in ConfigQRs :
        /\ drawer = newDrawer(qr, Mul(qr.size, Num(10)))
        /\ canvas = newCanvas(Mul(qr.size, Num(10)))
    /\ style \in ObservedStyles
    /\ styleCall = NoStyleCall
    /\ other = [drawer |-> newDrawer(capacityQR(60), Num(20)),
                style |-> newStyle(Num(2)),
                markup |-> Undefined]
    /\ runs = NoRuns
    /\ svgCall = NoSvgCall
    /\ sizeCall = NoSizeCall
    /\ colorCall = NoColorCall
    /\ urls = NoUrls /\ calls = NoCalls
    /\ heap = NoHeap

\* markup generations on the observed instance, with any operations on the
\* other instance in between
NextDeterminism ==
    \/ GenerateMarkup
    \/ OtherSetSize \/ OtherSetModuleRadius \/ OtherSetMargin \/ OtherGenerateMarkup
SpecDeterminism == InitDeterminism /\ [][NextDeterminism]_vars

-----
(* Properties of the size-value resolver                                   *)

\* C1: for every SizeValue v, reference r and maximum m, parseSizeValue(v, r, m)
\* is in [0, m] when m is given and is >= 0 when m is omitted.
C1_ResolvedInRange ==
    sizeCall.parseSizeValue # Undefined =>
        /\ Ge(sizeCall.parseSizeValue, Num(0))
        /\ sizeCall.maximum # Undefined => Ge(sizeCall.maximum, sizeCall.parseSizeValue)

IsDigit(c) == DigitValue(c, 10) >= 0
AllDigits(s) == Len(s) > 0 /\ \A i \in 1..Len(s) : IsDigit(s[i])
Pow10(k) == IF k = 0 THEN 1 ELSE IF k = 1 THEN 10 ELSE IF k = 2 THEN 100
            ELSE IF k = 3 THEN 1000 ELSE IF k = 4 THEN 10000 ELSE 100000

\* s is a decimal numeral: an optional minus sign, digits and an optional
\* fraction part (what the type `${number}` admits in front of % or px)
IsUnsignedNumeral(s) ==
    \/ AllDigits(s)
    \/ \E k \in 2..(Len(s) - 1) :
        /\ s[k] = "."
        /\ AllDigits(SubSeq(s, 1, k - 1))
        /\ AllDigits(SubSeq(s, k + 1, Len(s)))
IsNumeral(s) ==
    IF Len(s) > 0 /\ s[1] = "-" THEN IsUnsignedNumeral(Tail(s)) ELSE IsUnsignedNumeral(s)

\* the number a decimal numeral denotes
UnsignedNumeralValue(s) ==
    IF AllDigits(s) THEN Num(DigitsValue(s, 10))
    ELSE LET k == CHOOSE k \in 2..(Len(s) - 1) : s[k] = "."
             frac == SubSeq(s, k + 1, Len(s))
         IN  Add(Num(DigitsValue(SubSeq(s, 1, k - 1), 10)),
                 Rat(DigitsValue(frac, 10), Pow10(Len(frac))))
NumeralValue(s) ==
    IF s[1] = "-" THEN Mul(Num(-1), UnsignedNumeralValue(Tail(s)))
    ELSE UnsignedNumeralValue(s)

\* C2: without a maximum, parseSizeValue is the reference resolver: a bare
\* number n gives n, "<n>%" gives reference*n/100, "<n>px" gives n, whatever
\* cannot be parsed (NaN, a string with no digit in it) gives 0, and
\* Drawer.parseValue gives the same result.
C2_ReferenceResolver ==
    (sizeCall.parseSizeValue # Undefined /\ sizeCall.maximum = Undefined) =>
        LET v == sizeCall.value
            r == sizeCall.reference
            result == sizeCall.parseSizeValue
        IN  /\ sizeCall.parseValue # Undefined => sizeCall.parseValue = result
            /\ (typeof(v) = "number" /\ ~isNaN(v)) => result = v
            /\ (typeof(v) = "number" /\ isNaN(v)) => result = Num(0)
            /\ (typeof(v) = "string" /\ endsWith(v.str, <<"%">>)
                    /\ IsNumeral(sliceEnd(v.str, 1)))
                => result = Div(Mul(r, NumeralValue(sliceEnd(v.str, 1))), Num(100))
            /\ (typeof(v) = "string" /\ endsWith(v.str, <<"p", "x">>)
                    /\ IsNumeral(sliceEnd(v.str, 2)))
                => result = NumeralValue(sliceEnd(v.str, 2))
            /\ (typeof(v) = "string" /\ \A i \in 1..Len(v.str) : ~IsDigit(v.str[i]))
                => result = Num(0)

-----------------------------------------------------------------------------
(* Properties of the gradient model                                        *)

\* C3: a single bare colour, normalised by parseColor and rendered by
\* generateGradient, yields exactly 2 stops, both of that colour, at offsets
\* 0 and 100.
C3_SingleColorTwoStops ==
    (typeof(colorCall.color) = "string" /\ colorCall.svg # Undefined) =>
        /\ Len(colorCall.svg.stops) = 2
        /\ colorCall.svg.stops[1] = [offset |-> Num(0), color |-> colorCall.color]
        /\ colorCall.svg.stops[2] = [offset |-> Num(100), color |-> colorCall.color]

\* C4: gradient normalisation is idempotent: parseColor(parseColor(x)) equals
\* parseColor(x) field by field, for a bare colour, a partial linear and a
\* partial radial description x.
C4_NormalizeIdempotent ==
    colorCall.again # Undefined => colorCall.again = colorCall.gradient

\* a partial radial description with nothing but its colours given has been
\* normalised twice, and so has a bare colour
C4_Witness ==
    /\ colorCall.again # Undefined
    /\ typeof(colorCall.color) = "object"
    /\ colorCall.color.type = "radial"
    /\ colorCall.color.percentages = Undefined
    /\ colorCall.color.cx = Undefined
    /\ length(colorCall.color.colors) = 2
    /\ colorCall.again.percentages = Array(<<Num(0), Num(100)>>)
    /\ colorCall.again.cx = Num(50)

\* C14: for a partial linear or radial description with count >= 1 colours and
\* no stop offsets, parseColor returns as many offsets as colours, the i-th
\* being i/(count-1)*100, a defined number in [0, 100].
C14_EvenOffsets ==
    (/\ typeof(colorCall.color) = "object"
     /\ colorCall.color.percentages = Undefined
     /\ colorCall.gradient # Undefined) =>
        LET count == length(colorCall.color.colors)
            offsets == colorCall.gradient.percentages
        IN  /\ length(offsets) = count
            /\ \A i \in 0..(count - 1) :
                /\ At(offsets, i) = Mul(Div(Num(i), Num(count - 1)), Num(100))
                /\ ~isNaN(At(offsets, i))
                /\ Ge(At(offsets, i), Num(0))
                /\ Ge(Num(100), At(offsets, i))

\* C15: generateGradient emits, for every stop index i of a normalised
\* gradient, the offset percentages[i] of that gradient, 0 included.
C15_OffsetsAsNormalised ==
    (colorCall.gradient # Undefined /\ colorCall.svg # Undefined) =>
        \A i \in 0..(length(colorCall.gradient.colors) - 1) :
            colorCall.svg.stops[i + 1].offset = At(colorCall.gradient.percentages, i)

-----------------------------------------------------------------------------
(* Properties of Style                                                     *)

\* C5: in every state reachable by setter and setStyles calls, moduleRadius is
\* in [0, 0.5*moduleUnit] and moduleMargin in [0, 0.3*moduleUnit]; setting
\* moduleRadius to "1000%" stores exactly 0.5*moduleUnit.
C5_RadiusMarginInRange ==
    /\ Ge(style._moduleRadius, Num(0))
    /\ Ge(Mul(Rat(1, 2), style.moduleSize), style._moduleRadius)
    /\ Ge(style._moduleMargin, Num(0))
    /\ Ge(Mul(Rat(3, 10), style.moduleSize), style._moduleMargin)
    /\ styleCall = [op |-> "moduleRadius", arg |-> String(<<"1", "0", "0", "0", "%">>)]
        => style._moduleRadius = Mul(Rat(1, 2), style.moduleSize)

\* C6: in every state reachable by setter calls,
\* totalSize = gridSide*moduleUnit + 2*padding + 2*margin for the stored
\* padding and margin; with neither set, totalSize = gridSide*moduleUnit.
C6_TotalSize ==
    LET grid == Mul(style.matrixSideModules, style.moduleSize)
    IN  /\ totalSize(style) =
                Add(grid, Add(Add(style._padding, style._padding),
                              Add(style._margin, style._margin)))
        /\ (style._padding = Num(0) /\ style._margin = Num(0)) => totalSize(style) = grid

\* both padding and margin have been set, to different non-zero values
C6_Witness ==
    /\ styleCall.op = "padding"
    /\ style._padding = Num(-100)
    /\ style._margin = Mul(Num(10), style.matrixSize)
    /\ style.matrixSideModules = Num(21)

\* the style field a Styles key is stored in
StyleField(key) ==
    CASE key = "moduleRadius" -> "_moduleRadius" [] key = "moduleMargin" -> "_moduleMargin"
      [] key = "padding" -> "_padding" [] key = "margin" -> "_margin"
      [] key = "background" -> "_background" [] key = "activeColor" -> "_activeColor"
      [] key = "inactiveColor" -> "_inactiveColor"

\* the style after the setter of a key alone is given a value
AfterSetter(s, key, value) ==
    CASE key = "moduleRadius" -> setModuleRadius(s, value)
      [] key = "moduleMargin" -> setModuleMargin(s, value)
      [] key = "padding" -> setPadding(s, value)
      [] key = "margin" -> setMargin(s, value)
      [] key = "background" -> setBackground(s, value)
      [] key = "activeColor" -> setActiveColor(s, value)
      [] key = "inactiveColor" -> setInactiveColor(s, value)

StyleKeys == {"moduleRadius", "moduleMargin", "padding", "margin",
              "background", "activeColor", "inactiveColor"}

\* C7: setStyles(partial) is a merge: a field whose key is absent from partial
\* keeps the value it had before the call, a field whose key is present (a
\* value of 0 included) becomes what its own setter would store.
C7_SetStylesMerges ==
    [][styleCall'.op = "setStyles" =>
        \A key \in StyleKeys :
            IF styleCall'.arg[key] = Undefined
            THEN style'[StyleField(key)] = style[StyleField(key)]
            ELSE style'[StyleField(key)] =
                    AfterSetter(style, key, styleCall'.arg[key])[StyleField(key)]]_vars

\* setStyles was given padding 0 and a background but no margin and no
\* radius: padding is 0 while margin and radius still hold earlier values
C7_Witness ==
    /\ styleCall.op = "setStyles"
    /\ styleCall.arg.padding = Num(0)
    /\ styleCall.arg.background # Undefined
    /\ styleCall.arg.margin = Undefined
    /\ styleCall.arg.moduleRadius = Undefined
    /\ style._padding = Num(0)
    /\ style._margin = Num(-100)
    /\ style._moduleRadius = Num(50)

\* C12: a gradient assigned to a paint slot is copied: a change the caller
\* makes afterwards to its gradient object or to the arrays of that object
\* (any step that leaves the Style's own fields as they are) leaves the value
\* of every paint slot as it was.
C12_PaintIsCopied ==
    [][style' = style =>
        \A slot \in PaintSlots :
            valueOf(heap'.objects, style'[slot]) = valueOf(heap.objects, style[slot])]_vars

-----------------------------------------------------------------------------
(* Properties of the Drawer                                                *)

\* C8: when addImage rejects (the fetch failed, or decoding / drawing the icon
\* failed) the stored icon (Drawer.image) is what it was before the call.
\* Stated for a call during which no other call stored an icon.
C8_RejectedAddImageKeepsImage ==
    \A c \in Calls :
        (/\ calls[c].op = "addImage"
         /\ calls[c].pc = "rejected"
         /\ \A o \in Calls \ {c} : ~calls[o].assigned)
        => drawer.image = calls[c].imageBefore

\* the side an icon has for a capacity metric, as the specification states it
ExpectedIconSide(c) ==
    LET area == (c * 15) \div 100
        side == CHOOSE k \in 0..area : k * k <= area /\ (k + 1) * (k + 1) > area
    IN  IF side % 2 = 1 THEN side ELSE side - 1

\* C9: for every capacity metric c >= 0 the icon side in modules that drawImage
\* computes is odd; it is floor(sqrt(floor(c*0.15))) when that is odd and one
\* less when it is even.  (The markup holds the side scaled by moduleSize*1000.)
C9_IconSideOdd ==
    (drawer # NoDrawer /\ svgCall.icon # Undefined) =>
        LET side == ExpectedIconSide(drawer.qr.QRMatrix.maxBitsData.n)
            scale == Mul(moduleSize(drawer), Num(1000))
        IN  /\ side % 2 = 1
            /\ svgCall.icon.content[2].width = Mul(Num(side), scale)
            /\ svgCall.icon.content[2].xlinkHeight = Mul(Num(side), scale)
            /\ svgCall.icon.content[1].width = Mul(Num(side), scale)

\* an icon was laid out for a capacity whose square root is even (4, so side 3)
C9_Witness ==
    /\ drawer # NoDrawer
    /\ svgCall.icon # Undefined
    /\ drawer.qr.QRMatrix.maxBitsData = Num(MaxCapacity)
    /\ svgCall.icon.content[2].width = Mul(Num(3), Mul(moduleSize(drawer), Num(1000)))

\* the paint of a module value
PaintOf(bit) ==
    CASE bit = 1 -> "black" [] bit = 0 -> "white"
      [] bit = -1 -> "red" [] bit = -2 -> "green" [] bit = -3 -> "yellow"

\* the module shapes of the emitted markup (all but the background rectangle)
ModuleShapes == Tail(svgCall.matrix.content)

\* the bucket of a shape: active, inactive, debug
Bucket(shape) ==
    CASE shape.fill = "black" -> 1 [] shape.fill = "white" -> 2 [] OTHER -> 3

\* the position of the shape of cell (row i, column j), counted from 1
CellX(j) == Mul(Num(j - 1), Mul(moduleSize(drawer), Num(1000)))
CellY(i) == Mul(Num(i - 1), Mul(moduleSize(drawer), Num(1000)))

-----------------------------------------------------------------------------
(* Properties of the async calls of the Drawer                             *)

\* the positions in the canvas history of the draws of a call
DrawsOf(c) == {k \in 1..Len(canvas.drawn) : canvas.drawn[k].call = c}

\* C11: the draws of two calls issued on the same Drawer never interleave:
\* for any two calls, every draw of the one comes before every draw of the
\* other, or every draw of the one comes after every draw of the other.
C11_DrawsNeverInterleave ==
    \A c, o \in Calls :
        c # o =>
            \/ \A k \in DrawsOf(c), w \in DrawsOf(o) : k < w
            \/ \A k \in DrawsOf(c), w \in DrawsOf(o) : k > w

\* C16: when a call has ended, resolved or rejected, every object URL its
\* drawSvg calls created has been revoked.
C16_UrlsRevokedOnExit ==
    \A c \in Calls :
        calls[c].pc \in {"resolved", "rejected"} =>
            \A u \in urls.created : u[1] = c => u \in urls.revoked

\* the data URLs addImage calls have stored so far
StoredImages == {calls[o].image : o \in {a \in Calls : calls[a].assigned}}

\* C18: within a reDraw / dataUrl call an icon is drawn only after the matrix
\* of the same call; and a reDraw / dataUrl call that was issued after an
\* addImage call had resolved, and has itself resolved, has drawn its matrix
\* and then a stored icon.
C18_IconAfterMatrix ==
    \A c \in Calls :
        calls[c].op \in {"reDraw", "dataUrl"} =>
            /\ \A k \in DrawsOf(c) :
                canvas.drawn[k].stage = "icon" =>
                    \E w \in DrawsOf(c) : w < k /\ canvas.drawn[w].stage = "matrix"
            /\ (/\ calls[c].pc = "resolved"
                /\ \E a \in calls[c].issuedAfter : calls[a].op = "addImage")
               => \E k \in DrawsOf(c) :
                    /\ canvas.drawn[k].stage = "icon"
                    /\ canvas.drawn[k].image \in StoredImages
                    /\ \E w \in DrawsOf(c) : w < k /\ canvas.drawn[w].stage = "matrix"

\* addImage("a") resolved, then dataUrl() was called and resolved: the canvas
\* holds the icon of addImage, then the matrix and the icon of dataUrl
C18_Witness ==
    /\ calls[1].op = "addImage" /\ calls[1].pc = "resolved"
    /\ calls[2].op = "dataUrl" /\ calls[2].pc = "resolved"
    /\ 1 \in calls[2].issuedAfter
    /\ canvas.drawn = <<[call |-> 1, stage |-> "icon", image |-> dataUrlOf("a")],
                        [call |-> 2, stage |-> "matrix", image |-> Null],
                        [call |-> 2, stage |-> "icon", image |-> dataUrlOf("a")]>>

-----------------------------------------------------------------------------
(* Properties of the Drawer's layout                                       *)

\* a user-provided value resolved against the module size and limited to a
\* maximum
ResolvedUpTo(value, reference, maximum) ==
    LET unlimited == parseValue(value, reference, Undefined)
    IN  IF Gt(unlimited, maximum) THEN maximum ELSE unlimited

\* C17: for a grid of side N the markup holds one rectangle per cell in
\* row-major order; that of cell (row r, column c) has
\* x = moduleMargin + c*moduleUnit, y = moduleMargin + r*moduleUnit (the Drawer
\* has no margin and no padding), side moduleUnit - moduleMargin and corner
\* radius moduleRadius, all in markup units of 1/1000.
C17_OneRectanglePerCell ==
    (drawer # NoDrawer /\ svgCall.matrix # Undefined) =>
        LET side == Len(drawer.qr.QRMatrix.data)
            unit == moduleSize(drawer)
            scaled(v) == Mul(v, Num(1000))
            shapes == ModuleShapes
        IN  /\ Len(shapes) = side * side
            /\ \A r \in 0..(side - 1) : \A c \in 0..(side - 1) :
                LET shape == shapes[r * side + c + 1]
                IN  /\ shape.tag = "rect"
                    /\ shape.x = scaled(Add(drawer._moduleMargin, Mul(Num(c), unit)))
                    /\ shape.y = scaled(Add(drawer._moduleMargin, Mul(Num(r), unit)))
                    /\ shape.width = scaled(Sub(unit, drawer._moduleMargin))
                    /\ shape.height = scaled(Sub(unit, drawer._moduleMargin))
                    /\ shape.rx = scaled(drawer._moduleRadius)
                    /\ shape.ry = scaled(drawer._moduleRadius)

\* C19: in every state reached by assignments to size, moduleRadius and
\* moduleMargin, the cached moduleRadius is the user-provided radius resolved
\* against the current module size and limited to half of it, and the cached
\* moduleMargin the user-provided margin limited to one fifth of it.
C19_CachedWithinModule ==
    drawer # NoDrawer =>
        LET unit == moduleSize(drawer)
            maxRadius == Mul(unit, Rat(1, 2))
            maxMargin == Mul(unit, Rat(1, 5))
        IN  /\ Ge(maxRadius, drawer._moduleRadius)
            /\ Ge(maxMargin, drawer._moduleMargin)
            /\ drawer._moduleRadius = ResolvedUpTo(drawer._ModuleRadius, unit, maxRadius)
            /\ drawer._moduleMargin = ResolvedUpTo(drawer._ModuleMargin, unit, maxMargin)

====
